---------------------------- MODULE Spec2Model ----------------------------
(***************************************************************************)
(* Vizify: the session/token lifecycle of the NextAuth jwt callback        *)
(* (src/app/api/auth/[...nextauth]/route.ts) and the playback controller   *)
(* of the dashboard (src/app/dashboard/page.tsx).                          *)
(*                                                                         *)
(* Four specifications share the module: SpecAuth drives the jwt callback  *)
(* and the token endpoint, SpecPlayer the dashboard's audio element and    *)
(* the Visualizer's audio graph, SpecCatalog the searches and the playlist *)
(* route, SpecRender the Visualizer's frames.  Each leaves the other's     *)
(* variables unchanged.                                                    *)
(***************************************************************************)
EXTENDS Integers, Sequences, FiniteSets, Bags, TLC

VARIABLES
    token,        \* the session's JWT as NextAuth persists it between callbacks
    now,          \* Date.now(), milliseconds
    inflight,     \* refresh requests sent to the token endpoint and not yet answered:
                  \* the bag of the tokens their callbacks were given
    authStep,     \* the callback step taken last, with its inputs
    session,      \* the session useSession() hands to the Dashboard
    currentTrack, \* useState currentTrack
    isPlaying,    \* useState isPlaying
    listening,    \* whether the mount effect (lines 162-179) has attached the audio listeners
    src,          \* audioRef.current.src
    paused,       \* audioRef.current.paused
    media,        \* the element's resource: "none", "loading", "ready" or "error"
    pending,      \* callers whose play() promise is still pending on the element
    events,       \* media events queued on the element, not yet dispatched
    playerStep,   \* the handler run last
    viz,          \* the Visualizer: its props at the last render, its effect and its audio graph
    searchResults,    \* useState searchResults
    loading,          \* useState loading
    searches,         \* the queries of the searches awaiting their response, in the order issued
    newest,           \* the search issued last and what has become of it
    selectedPlaylist, \* useState selectedPlaylist
    playlistTracks,   \* useState playlistTracks
    loadingPlaylist,  \* useState loadingPlaylist
    playlistFetches,  \* the playlists of the selectPlaylist calls awaiting their response
    signedOut,        \* the alert was shown and the window sent to "/"
    catalogStep,      \* the catalog step taken last, with its inputs
    time,             \* useState time of the Visualizer, in half seconds
    frequencyData,    \* useState frequencyData: the frame set last
    rotationY,        \* groupRef.current.rotation.y, in units of 1/(10000 * FrameLength)
    bars,             \* meshRefs.current: the transforms of the bars
    frames,           \* frames rendered so far
    renderStep        \* the useFrame call made last, with its inputs

authVars == <<token, now, inflight, authStep, session>>
playerVars == <<currentTrack, isPlaying, listening, src, paused, media, pending, events, playerStep, viz>>
catalogVars == <<searchResults, loading, searches, newest, selectedPlaylist, playlistTracks,
                 loadingPlaylist, playlistFetches, signedOut, catalogStep>>
renderVars == <<time, frequencyData, rotationY, bars, frames, renderStep>>
vars == <<token, now, inflight, authStep, session,
          currentTrack, isPlaying, listening, src, paused, media, pending, events, playerStep, viz,
          searchResults, loading, searches, newest, selectedPlaylist, playlistTracks,
          loadingPlaylist, playlistFetches, signedOut, catalogStep,
          time, frequencyData, rotationY, bars, frames, renderStep>>

-----------------------------------------------------------------------------
(* Bounds of the model *)

\* clock ticks of one second each that a behaviour may take
MaxTicks == 1
\* refresh requests that may wait for the token endpoint at one time
MaxInFlight == 2
\* largest lifetime, in seconds, the provider hands out in the model
MaxExpiresIn == 1
\* media events that may wait on the audio element's task queue
MaxEvents == 3
\* audio contexts the runtime lets the page hold open at one time
MaxContexts == 3
\* frames the render loop draws
MaxFrames == 2
\* the clock of the render loop, in half seconds
MaxTime == 2
\* seeds of the random jitter of a synthetic frame
MaxSeed == 2
\* requests of the page (searches, playlist fetches) that may await their
\* response at one time
MaxRequests == 2

(* Program constants *)

\* new Uint8Array(128), line 61 of the Visualizer
FrameLength == 128
\* analyser.fftSize = 256, line 28; frequencyBinCount is half of it
FftSize == 256
\* const numBars = 32, line 111
NumBars == 32

\* `* 1000`: seconds to milliseconds
MsPerSecond == 1000
\* `|| 3600`: the lifetime assumed when account.expires_in is falsy
DefaultExpiresIn == 3600

-----------------------------------------------------------------------------
(* Values *)

\* JavaScript undefined, for the string-valued fields
Undefined == "undefined"
RefreshAccessTokenError == "RefreshAccessTokenError"

AccessTokens == {"at1", "at2"}
RefreshTokens == {"rt1", "rt2"}

\* the token before any sign-in: no field set (0: accessTokenExpires unset, falsy on line 97)
NoToken ==
    [accessToken |-> Undefined, accessTokenExpires |-> 0,
     refreshToken |-> Undefined, error |-> Undefined]

\* the OAuth account NextAuth hands to the jwt callback on sign-in
Accounts ==
    [access_token : AccessTokens,
     refresh_token : RefreshTokens \cup {Undefined},
     \* 0 stands for a falsy expires_in (omitted): `||` on line 81 takes the default
     expires_in : 0..MaxExpiresIn]

\* what the fetch of the token endpoint can come to:
\*   ok       a 2xx answer {access_token, expires_in, refresh_token?}
\*   http     a non-2xx answer with a JSON error body (response.ok false)
\*   network  fetch rejects
\*   badjson  response.json() rejects
Responses ==
    [kind : {"ok"}, access_token : AccessTokens,
     expires_in : 1..MaxExpiresIn,
     refresh_token : RefreshTokens \cup {Undefined}]
    \cup {[kind |-> "http"], [kind |-> "network"], [kind |-> "badjson"]}

-----------------------------------------------------------------------------
(* callbacks.jwt and refreshAccessToken *)

\* a sign-in that forgets `error: undefined`
jwtSignInKeepsError(tok, account, t) ==
    [tok EXCEPT
        !.accessToken = account.access_token,
        !.accessTokenExpires =
            t + (IF account.expires_in # 0 THEN account.expires_in
                                          ELSE DefaultExpiresIn) * MsPerSecond,
        !.refreshToken = account.refresh_token]

\* jwt({token, account}) with an account: the initial sign in
jwtSignIn(tok, account, t) ==
    [tok EXCEPT
        !.accessToken = account.access_token,
        !.accessTokenExpires =
            t + (IF account.expires_in # 0 THEN account.expires_in
                                          ELSE DefaultExpiresIn) * MsPerSecond,
        !.refreshToken = account.refresh_token,
        !.error = Undefined]

\* the expiry comparison the wrong way round
TokenStillValidFlipped(tok, t) ==
    tok.accessTokenExpires # 0 /\ t > tok.accessTokenExpires

\* line 97: tokenWithExpiry.accessTokenExpires && now < tokenWithExpiry.accessTokenExpires
TokenStillValid(tok, t) ==
    tok.accessTokenExpires # 0 /\ t < tok.accessTokenExpires

\* the missing-refresh-token test left out
NoRefreshTokenUnchecked(tok) == FALSE

\* line 104: !tokenWithExpiry.refreshToken
NoRefreshToken(tok) == tok.refreshToken = Undefined

\* a failure result that also forgets the access token
withErrorDropsAccessToken(tok) ==
    [tok EXCEPT !.error = RefreshAccessTokenError, !.accessToken = Undefined]

\* lines 106-109 and 47-50: {...token, error: "RefreshAccessTokenError"}
withError(tok) == [tok EXCEPT !.error = RefreshAccessTokenError]

\* a refresh that always takes the answer's refresh_token, without `?? token.refreshToken`
refreshAccessTokenNoFallback(tok, resp, t) ==
    IF resp.kind = "ok"
    THEN [tok EXCEPT
            !.accessToken = resp.access_token,
            !.accessTokenExpires = t + resp.expires_in * MsPerSecond,
            !.refreshToken = resp.refresh_token]
    ELSE withError(tok)

\* a refresh whose fetch and json() sit outside the try: their rejections
\* leave the callback as exceptions and the session keeps the token it had
refreshAccessTokenFetchOutsideTry(tok, resp, t) ==
    IF resp.kind = "ok"
    THEN [tok EXCEPT
            !.accessToken = resp.access_token,
            !.accessTokenExpires = t + resp.expires_in * MsPerSecond,
            !.refreshToken = IF resp.refresh_token # Undefined
                             THEN resp.refresh_token
                             ELSE tok.refreshToken]
    ELSE IF resp.kind = "http" THEN withError(tok) ELSE tok

\* refreshAccessToken(token) once its fetch has come to `resp` at time t:
\* lines 39-44 on a 2xx answer; the catch of lines 45-51 on a non-2xx answer
\* (thrown on line 35) and on a rejection of fetch or of response.json()
refreshAccessToken(tok, resp, t) ==
    IF resp.kind = "ok"
    THEN [tok EXCEPT
            !.accessToken = resp.access_token,
            !.accessTokenExpires = t + resp.expires_in * MsPerSecond,
            !.refreshToken = IF resp.refresh_token # Undefined
                             THEN resp.refresh_token
                             ELSE tok.refreshToken]
    ELSE withError(tok)

-----------------------------------------------------------------------------
(* callbacks.session and the Dashboard's choice of what to render *)

\* useSession() before any session has been delivered
NoSession == [present |-> FALSE, accessToken |-> Undefined, error |-> Undefined]

\* a session callback that copies the access token only
sessionCallbackDropsError(tok) ==
    [present |-> TRUE, accessToken |-> tok.accessToken, error |-> Undefined]

\* lines 114-122: session.error is set when token.error is truthy,
\* session.accessToken always
sessionCallback(tok) ==
    [present |-> TRUE,
     accessToken |-> tok.accessToken,
     error |-> IF tok.error # Undefined THEN tok.error ELSE Undefined]

\* page.tsx 181-206: the early returns of the Dashboard's render
DashboardView(sess) ==
    IF ~sess.present THEN "signin"
    ELSE IF sess.error = RefreshAccessTokenError THEN "reauth"
    ELSE "dashboard"

\* the handlers the rendered elements can invoke: the search box, the
\* suggestion buttons, the track rows and the play/pause buttons exist in
\* the full dashboard only (page.tsx 208-558)
EnabledHandlers(sess) ==
    IF DashboardView(sess) = "dashboard"
    THEN {"searchSpotify", "playTrack", "togglePlayPause"}
    ELSE {}

-----------------------------------------------------------------------------
(* Actions of the token lifecycle *)

InitAuth ==
    /\ token = NoToken
    /\ now = MsPerSecond
    /\ inflight = EmptyBag
    /\ authStep = [op |-> "init"]
    /\ session = NoSession

\* time passes
Tick ==
    /\ now < (MaxTicks + 1) * MsPerSecond
    /\ now' = now + MsPerSecond
    /\ authStep' = [op |-> "tick"]
    /\ UNCHANGED <<token, inflight, session>>
    /\ UNCHANGED playerVars
    /\ UNCHANGED catalogVars
    /\ UNCHANGED renderVars

\* the provider's sign-in callback: jwt with an account.  The browser is
\* redirected and the page loads anew, holding no session yet.
SignIn ==
    \E account \in Accounts :
        /\ token' = jwtSignIn(token, account, now)
        /\ session' = NoSession
        /\ authStep' = [op |-> "signin", account |-> account, hadError |-> token.error]
        /\ UNCHANGED <<now, inflight>>
        /\ UNCHANGED playerVars
        /\ UNCHANGED catalogVars
        /\ UNCHANGED renderVars

\* a session-validity check: jwt without an account, on the session's token;
\* the token it returns goes through the session callback to the client
ValidityCheck ==
    /\ token # NoToken
    /\ IF TokenStillValid(token, now)
       THEN /\ token' = token
            /\ session' = sessionCallback(token')
            /\ authStep' = [op |-> "check"]
            /\ UNCHANGED inflight
       ELSE IF NoRefreshToken(token)
       THEN /\ token' = withError(token)
            /\ session' = sessionCallback(token')
            /\ authStep' = [op |-> "check"]
            /\ UNCHANGED inflight
       ELSE /\ BagCardinality(inflight) < MaxInFlight
            /\ inflight' = inflight (+) SetToBag({token})
            /\ authStep' = [op |-> "check"]
            /\ UNCHANGED <<token, session>>
    /\ UNCHANGED now
    /\ UNCHANGED playerVars
    /\ UNCHANGED catalogVars
    /\ UNCHANGED renderVars

\* the token endpoint answers (or the request fails): the callback that
\* waited for it returns, and its token becomes the session's token
EndpointAnswer ==
    \E tok \in BagToSet(inflight), resp \in Responses :
        /\ token' = refreshAccessToken(tok, resp, now)
        /\ session' = sessionCallback(token')
        /\ inflight' = inflight (-) SetToBag({tok})
        /\ authStep' = [op |-> "answer", tok |-> tok, resp |-> resp]
        /\ UNCHANGED now
        /\ UNCHANGED playerVars
        /\ UNCHANGED catalogVars
        /\ UNCHANGED renderVars

AuthNext ==
    \/ Tick
    \/ SignIn
    \/ ValidityCheck
    \/ EndpointAnswer

-----------------------------------------------------------------------------
(* The playback controller: Dashboard's playTrack, togglePlayPause and the  *)
(* listeners of the hidden <audio> element                                  *)

\* preview_url: string | null
Null == "null"
Tracks ==
    {[id |-> "t1", preview_url |-> "u1"],
     [id |-> "t2", preview_url |-> "u2"],
     [id |-> "t3", preview_url |-> Null]}
\* useState<Track | null>(null)
NoTrack == [id |-> "none", preview_url |-> Null]

\* a preview test that takes every track to have a preview
HasPreviewAlways(track) == TRUE

\* the truthiness tests of track.preview_url (lines 109, 450, 487)
HasPreview(track) == track.preview_url # Null

\* The audio element as a handler sees it.  `rejected` collects the callers
\* whose play() promise the handler's own calls have rejected; their catch
\* callbacks run as microtasks when the handler returns.
Audio ==
    [src |-> src, paused |-> paused, media |-> media,
     pending |-> pending, events |-> events, rejected |-> {}]

\* audio.play(): refused by the runtime's autoplay policy (the promise is
\* rejected, nothing else changes), or paused becomes false, "play" is
\* queued when the element was paused, and the promise waits for the
\* resource unless it is ready
audioPlay(a, caller, allowed) ==
    IF ~allowed
    THEN [a EXCEPT !.rejected = @ \cup {caller}]
    ELSE [a EXCEPT
            !.paused = FALSE,
            !.events = IF a.paused THEN Append(@, "play") ELSE @,
            !.pending = IF a.media = "ready" THEN @ ELSE @ \cup {caller}]

\* audio.pause(): nothing when paused; otherwise paused becomes true, "pause"
\* is queued and the pending play() promises are rejected
audioPause(a) ==
    IF a.paused
    THEN a
    ELSE [a EXCEPT
            !.paused = TRUE,
            !.events = Append(@, "pause"),
            !.rejected = @ \cup a.pending,
            !.pending = {}]

\* audio.src = url: the element's load algorithm drops the media events
\* still queued, rejects the pending play() promises, sets paused and starts
\* to fetch the new resource (an empty src has none)
audioSetSrc(a, url) ==
    [a EXCEPT
        !.src = url,
        !.paused = TRUE,
        !.media = IF url = "" THEN "error" ELSE "loading",
        !.events = <<>>,
        !.rejected = @ \cup a.pending,
        !.pending = {}]

\* lines 112-115: only playTrack attaches a catch to its play() promise, and
\* the callback is setIsPlaying(false)
afterCatch(playing, rejected) ==
    IF "playTrack" \in rejected THEN FALSE ELSE playing

-----------------------------------------------------------------------------
(* The Visualizer (src/unnamed/part_000) as the Dashboard renders it        *)

\* a demoMode prop that looks at isPlaying alone
DemoModeIgnoresPreview(track, playing) == ~playing

\* line 487 of page.tsx: demoMode={!currentTrack.preview_url || !isPlaying}
DemoMode(track, playing) == ~HasPreview(track) \/ ~playing

\* The Visualizer's state:
\*   mounted    the Canvas is rendered (a track is current)
\*   demoMode   the demoMode prop of the last render, a dependency of the effect
\*   open       audio contexts created and not closed
\*   connected  the audio element has been given to createMediaElementSource
\*   analyser   analyserRef.current: "none" (null), the analyser of an "open"
\*              context, or of a "closed" one
\*   cleanup    the effect's last run returned the function that closes its context
\*   failed     the last setup that was tried threw
NoVisualizer ==
    [mounted |-> FALSE, demoMode |-> TRUE, open |-> 0, connected |-> FALSE,
     analyser |-> "none", cleanup |-> FALSE, failed |-> FALSE]

\* lines 37-39: the cleanup the effect returned, if it returned one.  It
\* closes the context; analyserRef.current keeps the analyser of that context.
effectCleanup(v) ==
    IF v.cleanup
    THEN [v EXCEPT !.open = @ - 1, !.analyser = "closed", !.cleanup = FALSE]
    ELSE v

\* What the try block of lines 24-39 can come to:
\*   ok             every call succeeds
\*   sourceThrows   new AudioContext() succeeds and createMediaElementSource
\*                  throws: an element can be connected to one source node only
\*   contextThrows  new AudioContext() throws
\*   none           the effect returns on line 21 and tries nothing
SetupOutcomes(v, demo) ==
    IF demo
    THEN {"none"}
    ELSE (IF v.connected THEN {} ELSE {"ok"})
         \cup (IF v.connected /\ v.open < MaxContexts THEN {"sourceThrows"} ELSE {})
         \cup {"contextThrows"}

\* lines 18-43: the body of the effect
effectSetup(v, demo, outcome) ==
    IF demo
    THEN v
    ELSE IF outcome = "ok"
    THEN [v EXCEPT !.open = @ + 1, !.connected = TRUE, !.analyser = "open",
                   !.cleanup = TRUE, !.failed = FALSE]
    ELSE IF outcome = "sourceThrows"
    THEN [v EXCEPT !.open = @ + 1, !.failed = TRUE]
    ELSE [v EXCEPT !.failed = TRUE]

\* The render that follows a state change of the Dashboard: the Visualizer
\* is rendered when a track is current (page.tsx 481-489), and its effect
\* runs again (cleanup, then body) when it mounts or demoMode has changed
\* (dependencies [audioElement, demoMode]; audioRef.current never changes).
RenderVisualizer(track, playing) ==
    IF track = NoTrack \/ (viz.mounted /\ viz.demoMode = DemoMode(track, playing))
    THEN viz' = viz
    ELSE \E outcome \in SetupOutcomes(effectCleanup(viz), DemoMode(track, playing)) :
            viz' = [effectSetup(effectCleanup(viz), DemoMode(track, playing), outcome)
                        EXCEPT !.mounted = TRUE,
                               !.demoMode = DemoMode(track, playing)]

\* line 53: analyserRef.current && !demoMode && audioElement?.src
FrameMode(v, source) ==
    IF v.analyser # "none" /\ ~v.demoMode /\ source # ""
    THEN "live"
    ELSE "synthetic"

InitPlayer ==
    /\ viz = NoVisualizer
    /\ currentTrack = NoTrack
    /\ isPlaying = FALSE
    /\ listening = FALSE
    /\ src = ""
    /\ paused = TRUE
    /\ media = "none"
    /\ pending = {}
    /\ events = <<>>
    /\ playerStep = [op |-> "init"]

\* The Dashboard mounts and its effect runs once (dependencies []).  It
\* attaches handleEnded, handlePause and handlePlay when audioRef.current is
\* set, that is when the first render had a session and rendered <audio>;
\* a first render without a session (lines 181-187) leaves them unattached.
Mount ==
    \E sessionAtFirstRender \in BOOLEAN :
        /\ playerStep.op = "init"
        /\ listening' = sessionAtFirstRender
        /\ playerStep' = [op |-> "mount"]
        /\ UNCHANGED <<currentTrack, isPlaying, src, paused, media, pending, events, viz>>
        /\ UNCHANGED authVars
        /\ UNCHANGED catalogVars
        /\ UNCHANGED renderVars

\* playTrack(track), with the microtasks it leaves behind
PlayTrack ==
    \E track \in Tracks :
    \E allowed \in IF HasPreview(track) THEN BOOLEAN ELSE {TRUE} :
        LET a == IF HasPreview(track)
                 THEN audioPlay(audioSetSrc(Audio, track.preview_url), "playTrack", allowed)
                 ELSE audioSetSrc(audioPause(Audio), "")
            playing == HasPreview(track)
        IN  /\ playerStep.op # "init"
            /\ Len(a.events) <= MaxEvents
            /\ currentTrack' = track
            /\ isPlaying' = afterCatch(playing, a.rejected)
            /\ src' = a.src
            /\ paused' = a.paused
            /\ media' = a.media
            /\ pending' = a.pending
            /\ events' = a.events
            /\ playerStep' = [op |-> "playTrack", track |-> track, allowed |-> allowed,
                               wasPlaying |-> isPlaying]
            /\ RenderVisualizer(currentTrack', isPlaying')
            /\ UNCHANGED listening
            /\ UNCHANGED authVars
            /\ UNCHANGED catalogVars
            /\ UNCHANGED renderVars

\* togglePlayPause(), from the sidebar button (shown when the current track
\* has a preview) or the bottom player bar's button (shown for any current track)
TogglePlayPause ==
    \E allowed \in IF isPlaying THEN {TRUE} ELSE BOOLEAN :
        LET a == IF isPlaying THEN audioPause(Audio)
                              ELSE audioPlay(Audio, "toggle", allowed)
        IN  /\ currentTrack # NoTrack
            /\ Len(a.events) <= MaxEvents
            /\ isPlaying' = afterCatch(~isPlaying, a.rejected)
            /\ src' = a.src
            /\ paused' = a.paused
            /\ media' = a.media
            /\ pending' = a.pending
            /\ events' = a.events
            /\ playerStep' = [op |-> "toggle", allowed |-> allowed]
            /\ UNCHANGED <<currentTrack, listening>>
            /\ RenderVisualizer(currentTrack', isPlaying')
            /\ UNCHANGED authVars
            /\ UNCHANGED catalogVars
            /\ UNCHANGED renderVars

\* the resource of the element becomes playable: pending play() promises
\* resolve when the element is not paused
MediaLoaded ==
    /\ media = "loading"
    /\ media' = "ready"
    /\ pending' = IF paused THEN pending ELSE {}
    /\ playerStep' = [op |-> "loaded"]
    /\ UNCHANGED <<currentTrack, isPlaying, listening, src, paused, events, viz>>
    /\ UNCHANGED authVars
    /\ UNCHANGED catalogVars
    /\ UNCHANGED renderVars

\* the resource cannot be loaded or decoded
MediaFailed ==
    /\ media = "loading"
    /\ media' = "error"
    /\ playerStep' = [op |-> "failed"]
    /\ UNCHANGED <<currentTrack, isPlaying, listening, src, paused, pending, events, viz>>
    /\ UNCHANGED authVars
    /\ UNCHANGED catalogVars
    /\ UNCHANGED renderVars

\* a pending play() promise is rejected because the element has no usable resource
PlayRejected ==
    /\ media = "error"
    /\ pending # {}
    /\ pending' = {}
    /\ isPlaying' = afterCatch(isPlaying, pending)
    /\ playerStep' = [op |-> "rejected"]
    /\ UNCHANGED <<currentTrack, listening, src, paused, media, events>>
    /\ RenderVisualizer(currentTrack', isPlaying')
    /\ UNCHANGED authVars
    /\ UNCHANGED catalogVars
    /\ UNCHANGED renderVars

\* playback reaches the end of the preview
PlaybackEnds ==
    /\ media = "ready"
    /\ ~paused
    /\ Len(events) + 2 <= MaxEvents
    /\ paused' = TRUE
    /\ events' = events \o <<"pause", "ended">>
    /\ playerStep' = [op |-> "ends"]
    /\ UNCHANGED <<currentTrack, isPlaying, listening, src, media, pending, viz>>
    /\ UNCHANGED authVars
    /\ UNCHANGED catalogVars
    /\ UNCHANGED renderVars

\* the element dispatches its next queued event to handlePlay, handlePause
\* or handleEnded, when the mount effect has attached them
DispatchEvent ==
    /\ events # <<>>
    /\ events' = Tail(events)
    /\ isPlaying' = IF listening THEN Head(events) = "play" ELSE isPlaying
    /\ playerStep' = [op |-> "event", event |-> Head(events)]
    /\ UNCHANGED <<currentTrack, listening, src, paused, media, pending>>
    /\ RenderVisualizer(currentTrack', isPlaying')
    /\ UNCHANGED authVars
    /\ UNCHANGED catalogVars
    /\ UNCHANGED renderVars

\* useFrame (lines 45-71): one rendered frame, from the analyser or synthesized
Frame ==
    /\ viz.mounted
    /\ playerStep' = [op |-> "frame", mode |-> FrameMode(viz, src)]
    /\ UNCHANGED <<currentTrack, isPlaying, listening, src, paused, media, pending, events, viz>>
    /\ UNCHANGED authVars
    /\ UNCHANGED catalogVars
    /\ UNCHANGED renderVars

PlayerNext ==
    \/ Mount
    \/ PlayTrack
    \/ TogglePlayPause
    \/ MediaLoaded
    \/ MediaFailed
    \/ PlayRejected
    \/ PlaybackEnds
    \/ DispatchEvent
    \/ Frame

-----------------------------------------------------------------------------
(* The catalog: searchSpotify and selectPlaylist of the Dashboard, and the  *)
(* playlist route (src/app/api/spotify/playlist/[id]/route.ts)              *)

\* the sessions the session callback can deliver to the page
DeliverableSessions ==
    [present : {TRUE}, accessToken : AccessTokens,
     error : {Undefined, RefreshAccessTokenError}]

\* what getServerSession() can hand to the playlist route: no session, a
\* session without an access token, or a session as callbacks.session
\* builds it, which carries the access token with or without the error
ServerSessions ==
    {NoSession,
     [present |-> TRUE, accessToken |-> Undefined, error |-> Undefined],
     [present |-> TRUE, accessToken |-> "at1", error |-> Undefined],
     [present |-> TRUE, accessToken |-> "at1", error |-> RefreshAccessTokenError]}

\* the text of the search box; " " stands for the blank queries
Queries == {" ", "q1", "q2"}
\* query.trim()
Trim(query) == IF query = " " THEN "" ELSE query

\* what a request to the catalog API can come to:
\*   ok            a 2xx answer
\*   unauthorized  a 401 answer
\*   other         another non-2xx answer
\*   network       fetch rejects
\*   badjson       a 2xx answer whose body response.json() rejects
UpstreamAnswers == {"ok", "unauthorized", "other", "network", "badjson"}

\* a null entry, or one without id or name, in the items of an answer
InvalidItem == [id |-> "", preview_url |-> Null]

\* the 2xx body of a search, by query
SearchData(query) ==
    IF query = "q1"
    THEN [tracks |-> <<[id |-> "t3", preview_url |-> Null], InvalidItem,
                       [id |-> "t1", preview_url |-> "u1"]>>,
          playlists |-> <<[id |-> "p1"], [id |-> ""]>>]
    ELSE [tracks |-> <<[id |-> "t2", preview_url |-> "u2"]>>,
          playlists |-> <<[id |-> "p2"]>>]

\* line 73 and line 83: track && track.id && track.name
ValidItem(item) == item.id # ""
WithoutPreview(track) == ~HasPreview(track)

\* lines 72-90: the value given to setSearchResults.  The comparator of
\* lines 74-78 puts the tracks with a preview first and keeps the order
\* otherwise (Array.prototype.sort is stable).
SearchResultsOf(data) ==
    [tracks |-> SelectSeq(SelectSeq(data.tracks, ValidItem), HasPreview)
                \o SelectSeq(SelectSeq(data.tracks, ValidItem), WithoutPreview),
     playlists |-> SelectSeq(data.playlists, ValidItem)]

\* useState({tracks: [], playlists: []})
NoResults == [tracks |-> <<>>, playlists |-> <<>>]

Playlists == {[id |-> "p1"], [id |-> "p2"]}
\* useState<Playlist | null>(null)
NoPlaylist == [id |-> "none"]

\* the items of the 2xx body of /v1/playlists/{id}/tracks
PlaylistData(playlist) ==
    IF playlist.id = "p1"
    THEN <<[track |-> [id |-> "t1", preview_url |-> "u1"]],
           [track |-> [id |-> "t3", preview_url |-> Null]],
           [track |-> InvalidItem]>>
    ELSE <<[track |-> [id |-> "t2", preview_url |-> "u2"]]>>

\* line 150: item.track && item.track.preview_url
ItemHasPreview(item) == ValidItem(item.track) /\ HasPreview(item.track)

RECURSIVE TracksOf(_)
\* lines 149-152: data.items.filter(...).map(item => item.track)
TracksOf(items) ==
    IF items = <<>>
    THEN <<>>
    ELSE (IF ItemHasPreview(Head(items)) THEN <<Head(items).track>> ELSE <<>>)
         \o TracksOf(Tail(items))

\* route.ts line 10: !session?.accessToken
Unauthorized(serverSession) ==
    ~serverSession.present \/ serverSession.accessToken = Undefined

\* a playlist route that forwards without looking at the session
GETWithoutSessionCheck(playlist, serverSession, upstream) ==
    IF upstream = "ok"
    THEN [status |-> 200, error |-> Undefined, items |-> PlaylistData(playlist)]
    ELSE [status |-> 500, error |-> "Failed to fetch playlist tracks", items |-> <<>>]

\* route.ts GET: the answer of the playlist route, given the session
\* getServerSession() returned and what the catalog API answered.  The
\* answer is {error} with a status, or the upstream body ({items}) with 200.
GET(playlist, serverSession, upstream) ==
    IF Unauthorized(serverSession)
    THEN [status |-> 401, error |-> "Unauthorized", items |-> <<>>]
    ELSE IF upstream = "ok"
    THEN [status |-> 200, error |-> Undefined, items |-> PlaylistData(playlist)]
    ELSE [status |-> 500, error |-> "Failed to fetch playlist tracks", items |-> <<>>]

\* the fetch of selectPlaylist rejects: no response
NoResponse == [status |-> 0, error |-> Undefined, items |-> <<>>]

\* a sequence without its i-th element
RemoveAt(seq, i) == SubSeq(seq, 1, i - 1) \o SubSeq(seq, i + 1, Len(seq))

InitCatalog ==
    /\ searchResults = NoResults
    /\ loading = FALSE
    /\ searches = <<>>
    /\ newest = [query |-> " ", answer |-> "none"]
    /\ selectedPlaylist = NoPlaylist
    /\ playlistTracks = <<>>
    /\ loadingPlaylist = FALSE
    /\ playlistFetches = <<>>
    /\ signedOut = FALSE
    /\ catalogStep = [op |-> "init"]

\* useSession() hands the page a session
SessionDelivered ==
    /\ ~signedOut
    /\ \E sess \in DeliverableSessions :
        /\ sess # session
        /\ session' = sess
    /\ catalogStep' = [op |-> "session"]
    /\ UNCHANGED <<searchResults, loading, searches, newest, selectedPlaylist,
                   playlistTracks, loadingPlaylist, playlistFetches, signedOut>>
    /\ UNCHANGED <<token, now, inflight, authStep>>
    /\ UNCHANGED playerVars
    /\ UNCHANGED renderVars

\* searchSpotify up to its await (lines 54-66), called from the search box
\* or a suggestion button of the rendered dashboard
SearchSpotify ==
    /\ ~signedOut
    /\ DashboardView(session) = "dashboard"
    /\ \E query \in Queries :
        IF Trim(query) = "" \/ session.accessToken = Undefined
        THEN /\ catalogStep' = [op |-> "search", query |-> query, sent |-> FALSE]
             /\ UNCHANGED <<loading, searches, newest>>
        ELSE /\ Len(searches) + Len(playlistFetches) < MaxRequests
             /\ loading' = TRUE
             /\ searches' = Append(searches, query)
             /\ newest' = [query |-> query, answer |-> "pending"]
             /\ catalogStep' = [op |-> "search", query |-> query, sent |-> TRUE]
    /\ UNCHANGED <<searchResults, selectedPlaylist, playlistTracks, loadingPlaylist,
                   playlistFetches, signedOut>>
    /\ UNCHANGED authVars
    /\ UNCHANGED playerVars
    /\ UNCHANGED renderVars

\* searchSpotify after its await (lines 68-100): the response of one of the
\* searches in flight arrives
SearchAnswer ==
    /\ ~signedOut
    /\ \E i \in 1..Len(searches), answer \in UpstreamAnswers :
        /\ searchResults' = IF answer = "ok"
                            THEN SearchResultsOf(SearchData(searches[i]))
                            ELSE searchResults
        /\ signedOut' = (answer = "unauthorized")
        /\ loading' = FALSE
        /\ searches' = RemoveAt(searches, i)
        /\ newest' = IF i = Len(searches) /\ newest.answer = "pending"
                     THEN [newest EXCEPT !.answer = IF answer = "ok" THEN "ok" ELSE "failed"]
                     ELSE newest
        /\ catalogStep' = [op |-> "searchAnswer", query |-> searches[i], answer |-> answer]
    /\ UNCHANGED <<selectedPlaylist, playlistTracks, loadingPlaylist, playlistFetches>>
    /\ UNCHANGED authVars
    /\ UNCHANGED playerVars
    /\ UNCHANGED renderVars

\* selectPlaylist up to its await (lines 142-147)
SelectPlaylist ==
    /\ ~signedOut
    /\ DashboardView(session) = "dashboard"
    /\ Len(searches) + Len(playlistFetches) < MaxRequests
    /\ \E playlist \in Playlists :
        /\ selectedPlaylist' = playlist
        /\ playlistFetches' = Append(playlistFetches, playlist)
        /\ catalogStep' = [op |-> "selectPlaylist", playlist |-> playlist]
    /\ loadingPlaylist' = TRUE
    /\ UNCHANGED <<searchResults, loading, searches, newest, playlistTracks, signedOut>>
    /\ UNCHANGED authVars
    /\ UNCHANGED playerVars
    /\ UNCHANGED renderVars

\* selectPlaylist after its await (lines 148-159): the playlist route has
\* run for one of the requests in flight (or the request never reached it)
PlaylistAnswer ==
    /\ ~signedOut
    /\ \E i \in 1..Len(playlistFetches), reached \in BOOLEAN :
        \E serverSession \in IF reached THEN ServerSessions ELSE {NoSession} :
        \E upstream \in IF reached /\ ~Unauthorized(serverSession)
                        THEN UpstreamAnswers ELSE {"none"} :
            /\ playlistTracks' =
                    IF reached /\ GET(playlistFetches[i], serverSession, upstream).status = 200
                    THEN TracksOf(GET(playlistFetches[i], serverSession, upstream).items)
                    ELSE playlistTracks
            /\ playlistFetches' = RemoveAt(playlistFetches, i)
            /\ catalogStep' =
                    [op |-> "playlistAnswer", playlist |-> playlistFetches[i],
                     reached |-> reached,
                     serverSession |-> serverSession,
                     upstream |-> upstream,
                     response |-> IF reached
                                  THEN GET(playlistFetches[i], serverSession, upstream)
                                  ELSE NoResponse]
    /\ loadingPlaylist' = FALSE
    /\ UNCHANGED <<searchResults, loading, searches, newest, selectedPlaylist, signedOut>>
    /\ UNCHANGED authVars
    /\ UNCHANGED playerVars
    /\ UNCHANGED renderVars

\* line 94: the window follows the redirect; the page and its requests are gone
Navigate ==
    /\ signedOut
    /\ searchResults' = NoResults
    /\ loading' = FALSE
    /\ searches' = <<>>
    /\ newest' = [query |-> " ", answer |-> "none"]
    /\ selectedPlaylist' = NoPlaylist
    /\ playlistTracks' = <<>>
    /\ loadingPlaylist' = FALSE
    /\ playlistFetches' = <<>>
    /\ signedOut' = FALSE
    /\ catalogStep' = [op |-> "navigate"]
    /\ session' = NoSession
    /\ UNCHANGED <<token, now, inflight, authStep>>
    /\ UNCHANGED playerVars
    /\ UNCHANGED renderVars

CatalogNext ==
    \/ SessionDelivered
    \/ SearchSpotify
    \/ SearchAnswer
    \/ SelectPlaylist
    \/ PlaylistAnswer
    \/ Navigate

-----------------------------------------------------------------------------
(* The render loop: useFrame of the Visualizer (src/unnamed/part_000 45-106) *)
(*                                                                          *)
(* Real numbers are kept exactly, as integers in a stated unit: samples of  *)
(* the synthetic signal in thousandths, scale.y in 1/2550, scale.x and      *)
(* scale.z in 1/510, position.y in 1/255, rotation.y in                     *)
(* 1/(10000 * FrameLength).  Angles are in twentieths of a radian.          *)

Min(a, b) == IF a < b THEN a ELSE b
Max(a, b) == IF a > b THEN a ELSE b

\* Math.sin in thousandths, of an angle in twentieths of a radian (pi is 63
\* of them), by Bhaskara's formula 16x(pi-x) / (5pi^2 - 4x(pi-x)) on [0, pi]
\* and its negative on [pi, 2pi]
Sin(angle) ==
    LET x == angle % 126
        h == IF x < 63 THEN x ELSE x - 63
        v == (16000 * h * (63 - h)) \div (5 * 63 * 63 - 4 * h * (63 - h))
    IN  IF x < 63 THEN v ELSE 0 - v

\* Math.random() * 20 in thousandths, a value of [0, 20): one per sample,
\* drawn from the seed of the frame
Noise(seed, i) == (seed * 9999 + i * 157) % 20000

\* storing the number itself, as a plain array would
ToUint8Unconverted(x) == x

\* the conversion of a Uint8Array element store: the number (in
\* thousandths, not negative here) truncated, modulo 256
ToUint8(x) == (x \div 1000) % 256

\* lines 64-67: sample i of the synthetic frame at the time held in state
\*   wave1 = Math.sin(time * 2 + i * 0.1) * 30
\*   wave2 = Math.sin(time * 0.5 + i * 0.05) * 50
\*   dataArray[i] = Math.max(0, Math.min(255, 80 + wave1 + wave2 + noise))
syntheticSample(t, i, noise) ==
    LET wave1 == Sin(20 * t + 2 * i) * 30
        wave2 == Sin(5 * t + i) * 50
    IN  ToUint8(Max(0, Min(255000, 80000 + wave1 + wave2 + noise)))

\* lines 61-68: the synthetic frame (index i of the code is position i + 1)
SyntheticFrame(t, seed) ==
    [k \in 1..FrameLength |-> syntheticSample(t, k - 1, Noise(seed, k - 1))]

\* what getByteFrequencyData can write into the frame: silence (also the
\* analyser of a closed context), full scale, a rising and a falling spectrum
LiveKinds == {"silent", "loud", "rising", "falling"}

\* lines 55-56: a frame of frequencyBinCount bytes, filled by the analyser
LiveFrame(kind) ==
    [k \in 1..(FftSize \div 2) |->
        IF kind = "silent" THEN 0
        ELSE IF kind = "loud" THEN 255
        ELSE IF kind = "rising" THEN 2 * (k - 1)
        ELSE 255 - 2 * (k - 1)]

RECURSIVE SumRange(_, _, _)
\* the sum of data[lo..hi], by halves
SumRange(data, lo, hi) ==
    IF lo > hi THEN 0
    ELSE IF lo = hi THEN data[lo]
    ELSE SumRange(data, lo, (lo + hi) \div 2) + SumRange(data, (lo + hi) \div 2 + 1, hi)

\* dataArray.reduce((sum, value) => sum + value, 0)
Sum(data) == SumRange(data, 1, Len(data))

\* an increment of avg / 10000 alone
RotationIncrementWithoutBase(data) == Sum(data)

\* line 74: 0.005 + avg / 10000 with avg = Sum(data) / data.length, in units
\* of 1/(10000 * data.length)
RotationIncrement(data) == 50 * Len(data) + Sum(data)

\* bars that spread over the whole frame
BarSampleSpread(data, index) == data[index * (Len(data) \div NumBars) + 1]

\* line 78-79: dataArray[index], the sample bar `index` (from 0) is drawn from
BarSample(data, index) == data[index + 1]

\* a frequency that is the raw sample
ScaleYOfRawSample(sample) == 255 + 30 * 255 * sample

\* line 82: scale.y = 0.1 + frequency * 3 with frequency = sample / 255,
\* in units of 1/2550
ScaleY(sample) == 255 + 30 * sample

\* lines 83-84: scale.x = scale.z = 0.5 + frequency * 0.5, in units of 1/510
ScaleXZ(sample) == 255 + sample

\* lines 77-105: the transform of a bar after a frame, from its sample.
\* saturation and lightness are in units of 1/255 of a percent; radius in
\* 1/255; spin counts the samples added to rotation.x (0.1/255 each) and
\* rotation.z (0.05/255 each).
Bar(old, sample) ==
    [scaleY |-> ScaleY(sample),
     scaleX |-> ScaleXZ(sample),
     scaleZ |-> ScaleXZ(sample),
     saturation |-> 50 * 255 + 50 * sample,
     lightness |-> 30 * 255 + 40 * sample,
     radius |-> 2 * 255 + sample,
     positionY |-> 2 * sample - 255,
     spin |-> old.spin + sample]

\* a mesh as createFrequencyBars makes it (lines 109-128): unit scale
NewBar ==
    [scaleY |-> 2550, scaleX |-> 510, scaleZ |-> 510,
     saturation |-> 0, lightness |-> 0, radius |-> 0, positionY |-> 0, spin |-> 0]

InitRender ==
    /\ time = 0
    /\ frequencyData = [k \in 1..FrameLength |-> 0]
    /\ rotationY = 0
    /\ bars = [b \in 1..NumBars |-> NewBar]
    /\ frames = 0
    /\ renderStep = [op |-> "init"]

\* useFrame's callback (lines 45-106) for one frame: the clock reads
\* `elapsed`; the frame comes from the analyser (live) or is synthesized
\* from the time held in state
UseFrame ==
    /\ frames < MaxFrames
    /\ \E elapsed \in time..MaxTime, live \in BOOLEAN :
       \E kind \in IF live THEN LiveKinds ELSE {"none"} :
       \E seed \in IF live THEN {0} ELSE 0..MaxSeed :
            LET dataArray == IF live THEN LiveFrame(kind) ELSE SyntheticFrame(time, seed)
            IN  /\ time' = elapsed
                /\ frequencyData' = dataArray
                /\ rotationY' = rotationY + RotationIncrement(dataArray)
                /\ bars' = [b \in 1..NumBars |-> Bar(bars[b], BarSample(dataArray, b - 1))]
                /\ renderStep' = [op |-> "frame",
                                  mode |-> IF live THEN "live" ELSE "synthetic",
                                  time |-> time, seed |-> seed, kind |-> kind]
    /\ frames' = frames + 1
    /\ UNCHANGED authVars
    /\ UNCHANGED playerVars
    /\ UNCHANGED catalogVars

\* line 46: the callback runs before the group is mounted and returns
UseFrameWithoutGroup ==
    /\ renderStep.op = "init"
    /\ renderStep' = [op |-> "nogroup"]
    /\ UNCHANGED <<time, frequencyData, rotationY, bars, frames>>
    /\ UNCHANGED authVars
    /\ UNCHANGED playerVars
    /\ UNCHANGED catalogVars

RenderNext ==
    \/ UseFrame
    \/ UseFrameWithoutGroup

-----------------------------------------------------------------------------
(* Specifications *)

Init == InitAuth /\ InitPlayer /\ InitCatalog /\ InitRender

SpecAuth == Init /\ [][AuthNext]_vars

SpecPlayer == Init /\ [][PlayerNext]_vars

SpecCatalog == Init /\ [][CatalogNext]_vars

SpecRender == Init /\ [][RenderNext]_vars

-----------------------------------------------------------------------------
(* Properties of the playback controller (SpecPlayer) *)

\* C1: in every reachable state of the playback controller, isPlaying = TRUE
\* implies that the current track has a preview URL.
C1_PlayingImpliesPreview ==
    isPlaying => (currentTrack # NoTrack /\ currentTrack.preview_url # Null)

\* C12: playTrack on a track without a preview URL leaves isPlaying false,
\* the audio element paused and its source cleared, whatever the state before.
C12_NoPreviewNeverPlays ==
    [][(playerStep'.op = "playTrack" /\ playerStep'.track.preview_url = Null)
        => (~isPlaying' /\ paused' /\ src' = "")]_vars

\* playTrack on a track without preview has just run while isPlaying was true
C12_Witness ==
    /\ playerStep.op = "playTrack"
    /\ playerStep.track.preview_url = Null
    /\ playerStep.wasPlaying
    /\ ~isPlaying
    /\ paused
    /\ src = ""

\* C13: playTrack on a track with a preview URL assigns the URL to the audio
\* element; isPlaying is not true while the start of playback is pending,
\* and is false after the start has failed.
C13_PlayingOnlyAfterStart ==
    [][/\ (playerStep'.op = "playTrack" /\ playerStep'.track.preview_url # Null)
          => (/\ src' = playerStep'.track.preview_url
              /\ "playTrack" \in pending' => ~isPlaying')
       /\ (playerStep'.op = "rejected" /\ "playTrack" \in pending)
          => ~isPlaying']_vars

\* C14: togglePlayPause, invoked while the current track has no preview URL,
\* changes neither isPlaying nor the play state of the audio element.
C14_ToggleNeedsPreview ==
    [][(playerStep'.op = "toggle" /\ currentTrack.preview_url = Null)
        => (isPlaying' = isPlaying /\ paused' = paused)]_vars

\* C15: while a track is current, the demoMode flag the Visualizer was last
\* rendered with is true exactly when the track has no preview URL or
\* isPlaying is false; it is true whenever the current track has no preview.
C15_DemoModeFlag ==
    currentTrack # NoTrack =>
        /\ viz.mounted
        /\ viz.demoMode <=> (currentTrack.preview_url = Null \/ ~isPlaying)
        /\ currentTrack.preview_url = Null => viz.demoMode

\* a track without preview is current while isPlaying is true, and the
\* Visualizer is in demonstration mode
C15_Witness ==
    /\ currentTrack # NoTrack
    /\ currentTrack.preview_url = Null
    /\ isPlaying
    /\ viz.mounted
    /\ viz.demoMode

\* C16: at most one audio analysis context is created and not closed.
C16_AtMostOneOpenContext == viz.open <= 1

\* C17: after an audio graph setup has thrown, and until a later setup
\* succeeds, every rendered frame is synthetic.
C17_SyntheticAfterFailedSetup ==
    (playerStep.op = "frame" /\ viz.failed) => playerStep.mode = "synthetic"

\* C18: a frame is read from the analyser exactly when demoMode is false,
\* the analyser bound is one of a context that is still open, and the audio
\* element has a source.
C18_LiveFrameNeedsOpenAnalyser ==
    playerStep.op = "frame" =>
        (playerStep.mode = "live"
            <=> (~viz.demoMode /\ viz.analyser = "open" /\ src # ""))


\* C28: the failure of a play() that an earlier playTrack call started does
\* not set isPlaying to false once a later playTrack call has started a
\* track: after that later call, allowed to play, isPlaying is true.
C28_StaleFailureKeepsPlaying ==
    [][(/\ playerStep'.op = "playTrack"
        /\ playerStep'.track.preview_url # Null
        /\ playerStep'.allowed
        /\ "playTrack" \in pending)
        => isPlaying']_vars

-----------------------------------------------------------------------------
(* Properties of the render loop (SpecRender) *)

\* C23: every sample of a synthetic frame is an integer of [0, 255], for
\* every time, sample index and jitter.
C23_SyntheticSamplesInRange ==
    (renderStep.op = "frame" /\ renderStep.mode = "synthetic")
        => \A k \in 1..Len(frequencyData) :
                frequencyData[k] \in 0..255

\* a synthetic frame was made at a time after 0, with jitter, and is not silent
C23_Witness ==
    /\ renderStep.op = "frame"
    /\ renderStep.mode = "synthetic"
    /\ renderStep.time > 0
    /\ renderStep.seed > 0
    /\ \E k \in 1..Len(frequencyData) : frequencyData[k] > 0

\* C24: after a frame is applied every bar has scale.y in [0.1, 3.1] (255
\* to 7905 in units of 1/2550) and scale.x = scale.z in [0.5, 1.0] (255 to
\* 510 in units of 1/510).
C24_BarScalesBounded ==
    renderStep.op = "frame"
        => \A b \in 1..NumBars :
                /\ bars[b].scaleY >= 255
                /\ bars[b].scaleY <= 7905
                /\ bars[b].scaleX = bars[b].scaleZ
                /\ bars[b].scaleX >= 255
                /\ bars[b].scaleX <= 510

\* a full-scale frame was applied: the bars are at their upper bounds
C24_Witness ==
    /\ renderStep.op = "frame"
    /\ renderStep.kind = "loud"
    /\ bars[1].scaleY = 7905
    /\ bars[NumBars].scaleX = 510

\* C25: on every rendered frame, live or synthetic, the frame has 128
\* samples, bar i takes its transform from sample i of that frame, and avg
\* (seen in the growth of rotation.y) is the mean over all 128 samples.
C25_BarsFollowTheirSamples ==
    [][frames' = frames + 1
        => (/\ Len(frequencyData') = 128
            /\ \A b \in 1..NumBars :
                    /\ bars'[b].scaleY = 255 + 30 * frequencyData'[b]
                    /\ bars'[b].scaleX = 255 + frequencyData'[b]
                    /\ bars'[b].positionY = 2 * frequencyData'[b] - 255
            /\ rotationY' - rotationY - 50 * 128
                    = SumRange(frequencyData', 1, 128))]_vars

\* a rising spectrum was applied: the last bar shows sample 31, which is
\* not the last sample of the frame
C25_Witness ==
    /\ renderStep.op = "frame"
    /\ renderStep.kind = "rising"
    /\ bars[NumBars].scaleY = 255 + 30 * frequencyData[NumBars]
    /\ frequencyData[FrameLength] # frequencyData[NumBars]

\* C26: on every rendered frame rotation.y grows by 0.005 + avg / 10000,
\* which lies in [0.005, 0.0305] (50 * 128 to 305 * 128 in units of
\* 1/(10000 * 128)); the rotation strictly increases.
C26_RotationGrows ==
    [][frames' = frames + 1
        => (/\ rotationY' - rotationY
                    = 50 * Len(frequencyData') + Sum(frequencyData')
            /\ rotationY' - rotationY >= 50 * 128
            /\ rotationY' - rotationY <= 305 * 128
            /\ rotationY' > rotationY)]_vars

\* two silent frames were rendered: the rotation grew by the least
\* increment each time
C26_Witness ==
    /\ frames = 2
    /\ renderStep.op = "frame"
    /\ renderStep.kind = "silent"
    /\ rotationY = 2 * 50 * FrameLength

-----------------------------------------------------------------------------
(* Properties of the catalog (SpecCatalog) *)

\* C19: when a newer search was issued while an older one was in flight and
\* both have been answered, the results held are those of the newer search,
\* in whichever order the responses arrived.
C19_NewerSearchWins ==
    (Len(searches) = 0 /\ newest.answer = "ok")
        => searchResults = SearchResultsOf(SearchData(newest.query))

C29_LoadingIffSearchInFlight == loading <=> (Len(searches) > 0)

\* C30: once no selectPlaylist call awaits its response, playlistTracks holds
\* the tracks with a preview of the playlist that is selectedPlaylist.
C30_PlaylistTracksMatchSelection ==
    (Len(playlistFetches) = 0 /\ selectedPlaylist # NoPlaylist)
        => playlistTracks = TracksOf(PlaylistData(selectedPlaylist))

C21_PlaylistRouteAnswers ==
    (catalogStep.op = "playlistAnswer" /\ catalogStep.reached) =>
        IF ~catalogStep.serverSession.present
           \/ catalogStep.serverSession.accessToken = Undefined
        THEN /\ catalogStep.response.status = 401
             /\ catalogStep.response.error # Undefined
             /\ catalogStep.upstream = "none"
        ELSE IF catalogStep.upstream # "ok"
        THEN /\ catalogStep.response.status = 500
             /\ catalogStep.response.error # Undefined
        ELSE /\ catalogStep.response.status = 200
             /\ catalogStep.response.error = Undefined
             /\ catalogStep.response.items = PlaylistData(catalogStep.playlist)

\* the route has answered 401 to a request without access token
C21_Witness ==
    /\ catalogStep.op = "playlistAnswer"
    /\ catalogStep.reached
    /\ catalogStep.serverSession.accessToken = Undefined
    /\ catalogStep.response.status = 401

-----------------------------------------------------------------------------
(* Properties of the token lifecycle (SpecAuth) *)

\* C11: whenever the token carries an error, the session the Dashboard holds
\* carries error = RefreshAccessTokenError, the Dashboard renders the
\* re-authentication prompt and none of its search, track-selection or
\* playback handlers can be invoked.
C11_ErrorSessionShowsReauthOnly ==
    token.error # Undefined =>
        /\ session.present
        /\ session.error = RefreshAccessTokenError
        /\ DashboardView(session) = "reauth"
        /\ EnabledHandlers(session) = {}

\* a refresh has just failed: the token carries the error and the prompt shows
C11_Witness ==
    /\ authStep.op = "answer"
    /\ authStep.resp.kind # "ok"
    /\ token.error = RefreshAccessTokenError
    /\ session.error = RefreshAccessTokenError
    /\ DashboardView(session) = "reauth"

\* C2: once the token state carries error = RefreshAccessTokenError, a later
\* validity check sends no request to the token endpoint.
C2_NoRetryAfterFailure ==
    [][(token.error = RefreshAccessTokenError /\ authStep'.op = "check")
        => inflight' = inflight]_vars

\* C3: two refresh requests of one session are never in flight at the same time.
C3_AtMostOneRefreshInFlight == BagCardinality(inflight) <= 1

\* C4: a validity check on a token whose accessTokenExpires is set and greater
\* than now returns the token unchanged and sends no request.
C4_ValidCheckChangesNothing ==
    [][(/\ authStep'.op = "check"
        /\ token.accessTokenExpires # 0
        /\ token.accessTokenExpires > now)
        => (token' = token /\ inflight' = inflight)]_vars

\* a validity check has just returned a still-valid token, with no request in flight
C4_Witness ==
    /\ authStep.op = "check"
    /\ token.accessTokenExpires > now
    /\ token.error = Undefined
    /\ inflight = EmptyBag

\* C5: a validity check on an expired token that holds a refresh token sends
\* one refresh request; when the endpoint answers, the callback ends in
\* Authenticated(valid) (no error, expiry in the future) on a 2xx answer and
\* in Failed (error = RefreshAccessTokenError) on a 400 answer.
C5_RefreshEndsValidOrFailed ==
    [][/\ (/\ authStep'.op = "check"
           /\ now >= token.accessTokenExpires
           /\ token.refreshToken # Undefined)
          => inflight' = inflight (+) SetToBag({token})
       /\ (authStep'.op = "answer" /\ authStep'.resp.kind = "ok")
          => (token'.error = Undefined /\ token'.accessTokenExpires > now')
       /\ (authStep'.op = "answer" /\ authStep'.resp.kind = "http")
          => token'.error = RefreshAccessTokenError]_vars

\* C6: a successful refresh yields the endpoint's access token, the expiry
\* now + expires_in*1000, and the endpoint's refresh_token when it gave one,
\* the refresh token of the refreshed token otherwise.
C6_SuccessfulRefreshResult ==
    [][(authStep'.op = "answer" /\ authStep'.resp.kind = "ok")
        => (/\ token'.accessToken = authStep'.resp.access_token
            /\ token'.accessTokenExpires = now' + authStep'.resp.expires_in * MsPerSecond
            /\ token'.refreshToken =
                 IF authStep'.resp.refresh_token # Undefined
                 THEN authStep'.resp.refresh_token
                 ELSE authStep'.tok.refreshToken)]_vars

\* a refresh has just succeeded without a refresh_token in the answer, and
\* the session still holds the refresh token it sent
C6_Witness ==
    /\ authStep.op = "answer"
    /\ authStep.resp.kind = "ok"
    /\ authStep.resp.refresh_token = Undefined
    /\ token.refreshToken = authStep.tok.refreshToken
    /\ token.accessToken = authStep.resp.access_token
    /\ token.accessToken # authStep.tok.accessToken

\* C7: every failed refresh attempt (a non-2xx answer, a network error, an
\* unreadable body) leaves the token state with error = RefreshAccessTokenError.
C7_FailedRefreshSetsError ==
    [][(authStep'.op = "answer" /\ authStep'.resp.kind # "ok")
        => token'.error = RefreshAccessTokenError]_vars

\* a refresh has just failed on a network error, on a token that carried no
\* error when the request was sent
C7_Witness ==
    /\ authStep.op = "answer"
    /\ authStep.resp.kind = "network"
    /\ authStep.tok.error = Undefined
    /\ token.error = RefreshAccessTokenError

\* C27: a failed refresh, and a validity check that finds the token expired
\* with no refresh token, return the token they were given with accessToken,
\* refreshToken and accessTokenExpires as they were; error is set.
C27_FailureKeepsOtherFields ==
    [][/\ (authStep'.op = "answer" /\ authStep'.resp.kind # "ok")
          => (/\ token'.accessToken = authStep'.tok.accessToken
              /\ token'.refreshToken = authStep'.tok.refreshToken
              /\ token'.accessTokenExpires = authStep'.tok.accessTokenExpires
              /\ token'.error = RefreshAccessTokenError)
       /\ (/\ authStep'.op = "check"
           /\ now >= token.accessTokenExpires
           /\ token.refreshToken = Undefined)
          => (/\ token'.accessToken = token.accessToken
              /\ token'.refreshToken = token.refreshToken
              /\ token'.accessTokenExpires = token.accessTokenExpires
              /\ token'.error = RefreshAccessTokenError)]_vars

\* a refresh has just failed on a non-2xx answer; the token holds the access
\* token and the refresh token the request was sent with
C27_Witness ==
    /\ authStep.op = "answer"
    /\ authStep.resp.kind = "http"
    /\ token.accessToken = authStep.tok.accessToken
    /\ token.accessToken # Undefined
    /\ token.refreshToken = authStep.tok.refreshToken
    /\ token.error = RefreshAccessTokenError

\* C8: a validity check on an expired token that holds no refresh token sets
\* error = RefreshAccessTokenError and sends no request.
C8_ExpiredWithoutRefreshTokenFails ==
    [][(/\ authStep'.op = "check"
        /\ now >= token.accessTokenExpires
        /\ token.refreshToken = Undefined)
        => (/\ token'.error = RefreshAccessTokenError
            /\ inflight' = inflight)]_vars

\* a validity check has just failed an expired token without a refresh token,
\* with no request in flight
C8_Witness ==
    /\ authStep.op = "check"
    /\ now >= token.accessTokenExpires
    /\ token.refreshToken = Undefined
    /\ token.error = RefreshAccessTokenError
    /\ inflight = EmptyBag

\* C9: once error = RefreshAccessTokenError is set on the token state, every
\* step other than a sign-in leaves it set.
C9_FailedUntilSignIn ==
    [][(token.error = RefreshAccessTokenError /\ authStep'.op # "signin")
        => token'.error = RefreshAccessTokenError]_vars

\* C10: a sign-in yields a token with the account's access and refresh
\* tokens, accessTokenExpires = now + expires_in*1000 (3600 s when the
\* provider omits expires_in) and no error, whatever the prior token was.
C10_SignInResult ==
    [][authStep'.op = "signin"
        => token' =
            [accessToken |-> authStep'.account.access_token,
             refreshToken |-> authStep'.account.refresh_token,
             accessTokenExpires |->
                now' + (IF authStep'.account.expires_in = 0
                        THEN DefaultExpiresIn
                        ELSE authStep'.account.expires_in) * MsPerSecond,
             error |-> Undefined]]_vars

\* a sign-in without expires_in has just replaced a Failed token
C10_Witness ==
    /\ authStep.op = "signin"
    /\ authStep.hadError = RefreshAccessTokenError
    /\ authStep.account.expires_in = 0
    /\ token.error = Undefined
    /\ token.accessTokenExpires = now + DefaultExpiresIn * MsPerSecond

=============================================================================
